---- MODULE Spec2Model ----
(***************************************************************************)
(* PatrickStar chunk eviction policy (core/eviction_policy.py): the        *)
(* warm-up access tracer, the next-use predictor and the "latest access"   *)
(* eviction list, together with the metronome they read; the tensors and   *)
(* parameters of core/parameter.py; CommInfo (core/comm.py); the engine    *)
(* and its initialisation (runtime); and the client calls of               *)
(* FP16_f_adamv2 (ops/fp16_cpu_adam.py).                                   *)
(***************************************************************************)
EXTENDS Integers, Sequences, FiniteSets, TLC

\* ------------------------------------------------------------------ bounds
\* moments the metronome may reach (warm-up length and later clock)
MaxMoment == 3
\* moments the metronome may reach in the eviction runs
MaxRankMoment == 2
\* largest need_bytes passed to derive_eviction_list
MaxNeed == 4
\* trace_release calls of one run
MaxRelease == 2
\* largest world size
MaxWorld == 2
\* CommInfo objects constructed in one run
MaxComm == 2
\* parameters in the lists passed to FP16_f_adamv2
MaxAdamParams == 2
\* PSTensor objects created in one run
MaxTensors == 4

\* chunk ids
Chunks == {1, 2, 3}

\* the chunks accessed while the predictor is exercised (chunk 3 is never accessed)
TracedChunks == {1, 2}

\* ----------------------------------------------------------------- devices
\* torch.device: (type, index); NoDevice stands for Python's None
cpu == [type |-> "cpu", index |-> 0]
cuda0 == [type |-> "cuda", index |-> 0]
cuda1 == [type |-> "cuda", index |-> 1]
NoDevice == [type |-> "None", index |-> 0]
Devices == {cpu, cuda0, cuda1}

\* patrickstar.core.const.ChunkState
ChunkState == {"FREE", "HOLD", "COMPUTE", "HOLD_AFTER_FWD", "HOLD_AFTER_BWD", "RELEASED"}

\* Chunk.get_payload_space(): fixed when the chunk is created
get_payload_space(chunk_id) == IF chunk_id = 1 THEN 2 ELSE 1

\* one chunk of id_to_chunk_map: get_device(), get_state(), is_pin()
ChunkRecords == [device : Devices \cup {NoDevice}, state : ChunkState, pin : BOOLEAN]

\* the chunk maps of the filter runs: every chunk record, one or two chunks
FilterMaps == [{1} -> ChunkRecords] \cup [{1, 2} -> ChunkRecords]

\* the chunk records of the ranking runs
RankRecords ==
    { [device |-> d, state |-> "HOLD", pin |-> FALSE] : d \in Devices }
        \cup { [device |-> cuda0, state |-> "COMPUTE", pin |-> FALSE] }

\* the chunk maps of the ranking runs: three chunks
RankMaps == [Chunks -> RankRecords]

\* the target devices of the ranking runs: the devices the process computes on
RankTargets == {cpu, cuda0}

\* the chunk maps of scenario A: chunks 1 and 2 on cuda0, eligible or in use
ScenarioMaps ==
    [{1, 2} -> [device : {cuda0}, state : {"HOLD", "HOLD_AFTER_FWD", "COMPUTE"}, pin : {FALSE}]]

\* the chunk map of the tracing runs
TraceMap ==
    (1 :> [device |-> cuda0, state |-> "HOLD", pin |-> FALSE])
        @@ (2 :> [device |-> cpu, state |-> "HOLD_AFTER_BWD", pin |-> FALSE])

\* the chunk and the devices of the tracing runs
TraceChunk == 1
TraceDevices == {cpu, cuda0}

\* ------------------------------------------------------------- parameters
\* the chunk based parameter, with a data and a gradient tensor
Params == {1}

\* patrickstar.core.const.AccessType
AccessType == {"DATA", "GRAD"}

\* patrickstar.core.const.TensorState
TensorState == {"FREE", "COMPUTE", "HOLD", "HOLD_AFTER_FWD", "HOLD_AFTER_BWD"}

\* the states a release may leave a tensor in
ReleaseState == {"HOLD", "HOLD_AFTER_FWD", "HOLD_AFTER_BWD", "FREE"}

\* the payload views set_tensor may receive; NoTensor stands for Python's None
Views == {"view1", "view2"}
NoTensor == "None"

\* the torch.nn.Parameter objects handed to register_param
RegParams == {1, 2}

\* param.requires_grad
requires_grad == [p \in RegParams |-> p = 1]

\* ParamType
ParamType == {"CHUNK_BASED", "TORCH_BASED"}

\* the data_type and name arguments of register_param
DataTypes == {"torch.half", "torch.float"}
Names == {"None", "weight"}

\* the access_type arguments: the members of AccessType, and None
AccessArgs == AccessType \cup {"None"}

\* the states given to the tensors of a registered parameter
RegStates == {"COMPUTE"}

\* --------------------------------------------------------------- optimizer
\* the parameter lists of FP16_f_adamv2
AdamLists == {"fp32_params", "exp_avgs", "exp_avg_sqs", "fp16_param_with_grad_list"}

\* the i-th parameter of a list
AdamParam(list, i) == <<list, i>>

\* the PSTensors of the parameters in the lists: the data tensor of each, and
\* the gradient tensor of the fp16 parameters
AdamTensors ==
    {<<AdamParam(l, i), "DATA">> : l \in AdamLists, i \in 1..MaxAdamParams}
        \cup {<<AdamParam("fp16_param_with_grad_list", i), "GRAD">> : i \in 1..MaxAdamParams}

\* the states the tensors of the optimizer's own parameters are in between steps
AdamRestState == {"FREE", "HOLD"}

\* ------------------------------------------------------------------- comm
\* the chunk kinds of a group
ChunkType == {"PARAM_FP16", "PARAM_FP32"}

\* group ids
GroupIds == {0, 1}

\* the offsets a CommInfo is constructed with
Offsets == -1..(MaxWorld + 1)

\* ----------------------------------------------------------------- engine
\* the chunks of the chunk list in a forward pass
FwdChunks == {1, 2}

\* the tensors laid out in a chunk: chunk 1 holds two, chunk 2 one
TensorsInChunk(chunk_id) == IF chunk_id = 1 THEN 1..2 ELSE 1..1

\* what the module's forward computation may leave in the chunk list
ModuleEnds ==
    {cl \in [FwdChunks -> [status : ChunkState, unused : {FALSE},
                           tensors : UNION {[TensorsInChunk(c) -> TensorState] : c \in FwdChunks}]] :
        \A c \in FwdChunks : DOMAIN cl[c].tensors = TensorsInChunk(c)}

\* ---------------------------------------------------------- engine config
\* DEFAULT_CHUNK_SIZE = 32 * 1024 * 1024
DEFAULT_CHUNK_SIZE == 33554432

\* a Python dict without keys
EmptyDict == [k \in {} |-> 0]

\* dict.get(key, default)
Get(dict, key, default) == IF key \in DOMAIN dict THEN dict[key] ELSE default

\* default_optim_config["params"]
DefaultOptimParams ==
    [lr |-> "0.01", betas |-> "(0.9, 0.999)", eps |-> "1e-8", weight_decay |-> "0",
     use_hybrid_adam |-> "True"]

\* default_optim_config
default_optim_config == [type |-> "Adam", params |-> DefaultOptimParams]

\* the "optimizer" entries a config may carry: any type or none, any subset of
\* the parameters (each with a value of the user) or no "params" at all
OptimizerConfigs ==
    {t @@ ps : t \in {EmptyDict} \cup {("type" :> ty) : ty \in {"Adam", "AdamW", "SGD"}},
               ps \in {EmptyDict} \cup {("params" :> [k \in K |-> "user"]) :
                                            K \in SUBSET DOMAIN DefaultOptimParams}}

\* the "fp16" entries a config may carry
Fp16Configs ==
    {[enabled |-> TRUE, loss_scale |-> 0], [enabled |-> TRUE, loss_scale |-> 1024],
     [enabled |-> FALSE, loss_scale |-> 0], [enabled |-> TRUE]}

\* the keys initialize_engine reads itself, all absent or all given
ClientKeyConfigs ==
    {EmptyDict,
     [default_chunk_size |-> 64, release_after_init |-> TRUE, use_cpu_embedding |-> FALSE]}

\* the dicts passed as config
ConfigDicts ==
    {o @@ f @@ g @@ ck @@ c :
        o \in {EmptyDict} \cup {("optimizer" :> oc) : oc \in OptimizerConfigs},
        f \in {EmptyDict} \cup {("fp16" :> fc) : fc \in Fp16Configs},
        g \in {EmptyDict, ("gradient_clipping" :> 1)},
        ck \in ClientKeyConfigs,
        c \in {EmptyDict, ("client" :> "client_config")}}

\* config = None
NoConfig == [none |-> TRUE, dict |-> EmptyDict]

\* the config argument: None or a dict
Configs == {NoConfig} \cup {[none |-> FALSE, dict |-> d] : d \in ConfigDicts}

\* what model_func may be: an nn.Module, a callable that builds one, neither
ModelFuncs == {"module", "callable", "other"}

VARIABLES
    chunk_access_dict,   \* (chunk_id, dev) -> ascending list of moments
    chunk_release_dict,  \* (chunk_id, dev) -> list of moments
    moment,              \* metronome.moment()
    is_warmup,           \* metronome.is_warmup()
    total_moment,        \* metronome._total_moment
    op,                  \* the operation that ran last
    id_to_chunk_map,     \* the chunk map of the chunk list
    need_bytes,          \* arguments of the last derive_eviction_list call
    target_device,
    movable_chunk_info,  \* its local list of (next_mom, chunk_id)
    moved_list,          \* its return value
    log,                 \* warnings it logged
    next_mom,            \* return value of the last _chunk_next_used_moment call
    exception,           \* the exception the last operation raised, "None" if none
    traced,              \* history: the trace_access calls made during warm-up
    released,            \* history: the trace_release calls made during warm-up
    ps_tensor,           \* (param, access_type) -> the PSTensor of its ps_attr
    pop,                 \* the PSParameter operation that ran last
    ret,                 \* return value of the last access_tensor call
    world_size,          \* get_world_size()
    comm_infos,          \* the CommInfo objects constructed so far
    comm_call,           \* the CommInfo construction that ran last
    chunk_list,          \* chunk_id -> status, unused flag and tensor states of the chunk
    fwd_call,            \* the PatrickStarEngine.forward call that ran last
    global_id,           \* PSTensor.global_id
    ps_attr,             \* param -> its ps_attr, for the params that have the attribute
    ps_tensors,          \* the ids of the PSTensor objects, in creation order
    reg_call,            \* the parameter.py operation that ran last
    adam_call,           \* the FP16_f_adamv2 call in progress
    init_call,           \* arguments of the last initialize_engine / PatrickStarEngine call
    init_result          \* what that call built and how it ended

vars == <<chunk_access_dict, chunk_release_dict, moment, is_warmup, total_moment,
          op, id_to_chunk_map, need_bytes, target_device, movable_chunk_info,
          moved_list, log, next_mom, exception, traced, released, ps_tensor, pop, ret,
          world_size, comm_infos, comm_call, chunk_list, fwd_call, global_id, ps_attr,
          ps_tensors, reg_call, adam_call, init_call, init_result>>

metro == <<moment, is_warmup, total_moment>>
dicts == <<chunk_access_dict, chunk_release_dict>>
history == <<traced, released>>
paramvars == <<ps_tensor, pop, ret>>
policyvars == <<dicts, metro, op, id_to_chunk_map, need_bytes, target_device,
                movable_chunk_info, moved_list, log, next_mom, exception, history>>
commvars == <<world_size, comm_infos, comm_call>>
\* the variables outside the eviction policy and the registered parameter
fwdvars == <<chunk_list, fwd_call>>
regvars == <<global_id, ps_attr, ps_tensors, reg_call>>
adamvars == <<adam_call>>
initvars == <<init_call, init_result>>
extvars == <<commvars, fwdvars, regvars, adamvars, initvars>>

\* ------------------------------------------------------------- helpers
\* list.sort() on a list of ints
Sort(s) == SortSeq(s, LAMBDA a, b : a < b)

Range(s) == {s[i] : i \in 1..Len(s)}

\* the call variables after an operation that is not derive_eviction_list
NoCall ==
    /\ need_bytes' = 0
    /\ target_device' = NoDevice
    /\ movable_chunk_info' = <<>>
    /\ moved_list' = <<>>
    /\ log' = {}

\* ------------------------------------------------------------ Metronome
\* Metronome.tiktac(): the clock advances once per tensor access
tiktac == moment' = moment + 1

\* --------------------------------------------------- ChunkEvictionPolicyBase
\* trace_access without the warm-up test
trace_access_Always(chunk_id, dev) ==
    IF <<chunk_id, dev>> \notin DOMAIN chunk_access_dict
    THEN (<<chunk_id, dev>> :> <<moment>>) @@ chunk_access_dict
    ELSE [chunk_access_dict EXCEPT ![<<chunk_id, dev>>] = Sort(Append(@, moment))]

\* trace_access replacing the list of a pair already recorded
trace_access_Overwrite(chunk_id, dev) ==
    IF ~is_warmup THEN chunk_access_dict
    ELSE (<<chunk_id, dev>> :> <<moment>>) @@ chunk_access_dict

\* trace_access recording only the first access of a pair
trace_access_FirstOnly(chunk_id, dev) ==
    IF ~is_warmup THEN chunk_access_dict
    ELSE IF <<chunk_id, dev>> \notin DOMAIN chunk_access_dict
         THEN (<<chunk_id, dev>> :> <<moment>>) @@ chunk_access_dict
    ELSE chunk_access_dict

\* trace_access(chunk_id, dev): the new value of chunk_access_dict
trace_access(chunk_id, dev) ==
    IF ~is_warmup THEN chunk_access_dict
    ELSE IF <<chunk_id, dev>> \notin DOMAIN chunk_access_dict
         THEN (<<chunk_id, dev>> :> <<moment>>) @@ chunk_access_dict
    ELSE [chunk_access_dict EXCEPT ![<<chunk_id, dev>>] = Sort(Append(@, moment))]

\* trace_release(chunk_id, dev) raises KeyError: the pair is in chunk_access_dict
\* and chunk_release_dict has no list for it
trace_release_raises(chunk_id, dev) ==
    /\ is_warmup
    /\ <<chunk_id, dev>> \in DOMAIN chunk_access_dict
    /\ <<chunk_id, dev>> \notin DOMAIN chunk_release_dict

\* trace_release(chunk_id, dev): the new value of chunk_release_dict
trace_release(chunk_id, dev) ==
    IF ~is_warmup THEN chunk_release_dict
    ELSE IF <<chunk_id, dev>> \notin DOMAIN chunk_access_dict
         THEN (<<chunk_id, dev>> :> <<moment>>) @@ chunk_release_dict
    ELSE IF <<chunk_id, dev>> \notin DOMAIN chunk_release_dict
         THEN chunk_release_dict
    ELSE [chunk_release_dict EXCEPT ![<<chunk_id, dev>>] = Sort(Append(@, moment))]

RECURSIVE ScanAccessList_AtOrAfter(_, _, _, _)
\* the scan with "mom >= cur_mom"
ScanAccessList_AtOrAfter(access_mom_list, i, cur_mom, total_mom) ==
    IF i > Len(access_mom_list) THEN total_mom + access_mom_list[1]
    ELSE IF access_mom_list[i] >= cur_mom THEN access_mom_list[i]
    ELSE ScanAccessList_AtOrAfter(access_mom_list, i + 1, cur_mom, total_mom)

RECURSIVE ScanAccessList_WrapTwice(_, _, _, _)
\* the scan wrapping around by two periods
ScanAccessList_WrapTwice(access_mom_list, i, cur_mom, total_mom) ==
    IF i > Len(access_mom_list) THEN 2 * total_mom + access_mom_list[1]
    ELSE IF access_mom_list[i] > cur_mom THEN access_mom_list[i]
    ELSE ScanAccessList_WrapTwice(access_mom_list, i + 1, cur_mom, total_mom)

RECURSIVE ScanAccessList(_, _, _, _)
\* for mom in access_mom_list: if mom > cur_mom: return mom
\* return total_mom + access_mom_list[0]
ScanAccessList(access_mom_list, i, cur_mom, total_mom) ==
    IF i > Len(access_mom_list) THEN total_mom + access_mom_list[1]
    ELSE IF access_mom_list[i] > cur_mom THEN access_mom_list[i]
    ELSE ScanAccessList(access_mom_list, i + 1, cur_mom, total_mom)

\* one period instead of two for a pair never required on the device
NeverRequired_OnePeriod(total_mom) == total_mom

\* the value for a pair that is not in chunk_access_dict
NeverRequired(total_mom) == 2 * total_mom

\* the test "(chunk_id, dev) not in self.chunk_access_dict"
NotRecorded(chunk_id, dev) == <<chunk_id, dev>> \notin DOMAIN chunk_access_dict

\* the prediction without the warm-up test
NextUsedMomentAt_NoWarmupTest(cur_mom, chunk_id, dev) ==
    IF NotRecorded(chunk_id, dev) THEN NeverRequired(total_moment)
    ELSE ScanAccessList(chunk_access_dict[<<chunk_id, dev>>], 1, cur_mom, total_moment)

\* _chunk_next_used_moment when metronome.moment() returns cur_mom
NextUsedMomentAt(cur_mom, chunk_id, dev) ==
    IF is_warmup THEN 0
    ELSE IF NotRecorded(chunk_id, dev) THEN NeverRequired(total_moment)
    ELSE ScanAccessList(chunk_access_dict[<<chunk_id, dev>>], 1, cur_mom, total_moment)

\* the prediction reading total_moment where the code reads the current moment
_chunk_next_used_moment_FromTotal(chunk_id, dev) == NextUsedMomentAt(total_moment, chunk_id, dev)

_chunk_next_used_moment(chunk_id, dev) == NextUsedMomentAt(moment, chunk_id, dev)

\* ------------------------------------------- LatestAccessChunkEvictionPolicy
\* the candidate test without its FREE conjunct
Movable_FreeAllowed(chunk, target) ==
    /\ chunk.device # NoDevice
    /\ chunk.device.type = target.type
    /\ chunk.state # "COMPUTE"
    /\ chunk.state # "RELEASED"
    /\ ~chunk.pin

\* the candidate test of the first loop
Movable(chunk, target) ==
    /\ chunk.device # NoDevice
    /\ chunk.device.type = target.type
    /\ chunk.state # "COMPUTE"
    /\ chunk.state # "RELEASED"
    /\ chunk.state # "FREE"
    /\ ~chunk.pin

\* the entry without the sign change: smallest next_mom first
QEntry_Ascending(mom, chunk_id) == <<mom, chunk_id>>

\* the entry q.put() receives for a candidate
QEntry(mom, chunk_id) == <<0 - mom, chunk_id>>

\* the order of the entries comparing the moments alone
EntryLE_MomentOnly(e, f) == e[1] <= f[1]

\* the order of the entries in the PriorityQueue (tuples compare lexicographically)
EntryLE(e, f) == e[1] < f[1] \/ (e[1] = f[1] /\ e[2] <= f[2])

\* q.get(): the smallest entry
QGet(q) == CHOOSE e \in q : \A f \in q : EntryLE(e, f)

\* id_to_chunk_map.items(): the chunk ids in the order the map yields them
Items(map) == SelectSeq([i \in 1..Cardinality(Chunks) |-> i], LAMBDA c : c \in DOMAIN map)

\* the first loop: the chunks that pass the candidate test, in map order
Candidates(map, target) == SelectSeq(Items(map), LAMBDA c : Movable(map[c], target))

\* the first loop: movable_chunk_info, one (next_mom, chunk_id) per candidate
MovableChunkInfo(map, target) ==
    LET cand == Candidates(map, target)
    IN  [i \in 1..Len(cand) |-> <<_chunk_next_used_moment(cand[i], target), cand[i]>>]

\* the first loop: the queue, one entry per candidate
FillQueue(info) == {QEntry(info[i][1], info[i][2]) : i \in 1..Len(info)}

RECURSIVE QPut(_, _)
\* q.put(e) on a queue kept as the list of its entries in q.get() order: e goes
\* behind the entries that are not larger
QPut(q, e) ==
    IF q = <<>> THEN <<e>>
    ELSE IF EntryLE(Head(q), e) THEN <<Head(q)>> \o QPut(Tail(q), e)
    ELSE <<e>> \o q

RECURSIVE FillQueueIn(_, _, _, _)
\* the first loop over the items of the map in the order items yields them
FillQueueIn(items, map, target, q) ==
    IF items = <<>> THEN q
    ELSE LET c == Head(items)
         IN  FillQueueIn(Tail(items), map, target,
                         IF Movable(map[c], target)
                         THEN QPut(q, QEntry(_chunk_next_used_moment(c, target), c))
                         ELSE q)

\* the exit test of the second loop
Enough(moved_bytes, need) == moved_bytes >= need

RECURSIVE EvictLoop(_, _, _, _)
\* the second loop: moved_list and moved_bytes when it ends
EvictLoop(q, list, moved_bytes, need) ==
    IF q = {} THEN [list |-> list, bytes |-> moved_bytes]
    ELSE LET e == QGet(q)
             nb == moved_bytes + get_payload_space(e[2])
             nl == Append(list, e[2])
         IN  IF Enough(nb, need) THEN [list |-> nl, bytes |-> nb]
             ELSE EvictLoop(q \ {e}, nl, nb, need)

RECURSIVE EvictLoopIn(_, _, _, _)
\* the second loop on a queue kept as a list
EvictLoopIn(q, list, moved_bytes, need) ==
    IF q = <<>> THEN list
    ELSE LET e == Head(q)
             nb == moved_bytes + get_payload_space(e[2])
             nl == Append(list, e[2])
         IN  IF Enough(nb, need) THEN nl
             ELSE EvictLoopIn(Tail(q), nl, nb, need)

\* derive_eviction_list on a map whose items() yields the chunk ids as items
derive_eviction_list(items, map, need, target) ==
    EvictLoopIn(FillQueueIn(items, map, target, <<>>), <<>>, 0, need)

\* ------------------------------------------------------------- PSParameter
\* PSTensor.__init__ with PSTensor.global_id = id
PSTensor(id) == [tensor |-> NoTensor, id |-> id, state |-> "FREE"]

\* PSParameter.set_tensor: the PSTensor after ps_tensor.tensor = tensor.view(shape)
set_tensor(t, view) == [t EXCEPT !.tensor = view]

\* set_state leaving the handle in place
set_state_KeepHandle(t, state) == [t EXCEPT !.state = state]

\* set_state freeing a tensor that already is in the state asked for
set_state_FreeOnRepeat(t, state) ==
    IF state # "COMPUTE"
    THEN [t EXCEPT !.state = IF t.state = state THEN "FREE" ELSE state, !.tensor = NoTensor]
    ELSE [t EXCEPT !.state = state]

\* PSParameter.set_state: the PSTensor after the call
set_state(t, state) ==
    IF state # "COMPUTE"
    THEN [t EXCEPT !.state = state, !.tensor = NoTensor]
    ELSE [t EXCEPT !.state = state]

\* PSParameter.access_tensor
access_tensor(t) == t.tensor

\* PSTensor.global_id left as it is by PSTensor.__init__
NextGlobalId_Same(gid) == gid

\* PSTensor.global_id += 1
NextGlobalId(gid) == gid + 1

\* PSParameter.__init__ with PSTensor.global_id = gid; an attribute that is None
\* or not set is the empty list
PSParameter(gid, requires, param_type, data_type, name) ==
    LET chunk_based == param_type = "CHUNK_BASED"
    IN  [name |-> name, data_type |-> data_type, param_type |-> param_type,
         data_chunk_id |-> "None", grad_chunk_id |-> "None",
         data_tensor |-> IF chunk_based THEN <<PSTensor(gid)>> ELSE <<>>,
         grad_tensor |-> IF chunk_based /\ requires
                         THEN <<PSTensor(NextGlobalId(gid))>> ELSE <<>>]

\* the ids of the PSTensors of a ps_attr, in creation order
TensorIds(attr) ==
    [i \in 1..Len(attr.data_tensor \o attr.grad_tensor) |->
        (attr.data_tensor \o attr.grad_tensor)[i].id]

\* PSTensor.global_id after PSParameter.__init__
GlobalIdAfter(gid, attr) ==
    IF attr.data_tensor = <<>> THEN gid
    ELSE IF attr.grad_tensor = <<>> THEN NextGlobalId(gid)
    ELSE NextGlobalId(NextGlobalId(gid))

\* PSParameter._access_ps_tensor: the tensor, None as the empty list, or the exception
_access_ps_tensor(attr, access_type) ==
    IF attr.param_type # "CHUNK_BASED" THEN [ret |-> <<>>, exception |-> "ValueError"]
    ELSE IF access_type \notin AccessType THEN [ret |-> <<>>, exception |-> "ValueError"]
    ELSE IF access_type = "DATA" THEN [ret |-> attr.data_tensor, exception |-> "None"]
    ELSE [ret |-> attr.grad_tensor, exception |-> "None"]

\* PSParameter.get_tensor_id
get_tensor_id(attr, access_type) ==
    IF attr.param_type = "TORCH_BASED" THEN [ret |-> -1, exception |-> "None"]
    ELSE LET t == _access_ps_tensor(attr, access_type)
         IN  IF t.exception # "None" THEN [ret |-> 0, exception |-> t.exception]
             ELSE IF t.ret = <<>> THEN [ret |-> 0, exception |-> "AttributeError"]
             ELSE [ret |-> t.ret[1].id, exception |-> "None"]

\* is_param_registered
is_param_registered(attrs, param) == param \in DOMAIN attrs

\* register_param making a new ps_attr whether or not the param has one
register_param_Always(attrs, gid, param, param_type, data_type, name) ==
    [p \in DOMAIN attrs \cup {param} |->
        IF p = param
        THEN PSParameter(gid, requires_grad[param], param_type, data_type, name)
        ELSE attrs[p]]

\* register_param: the ps_attr of every param after the call
register_param(attrs, gid, param, param_type, data_type, name) ==
    IF ~is_param_registered(attrs, param)
    THEN [p \in DOMAIN attrs \cup {param} |->
             IF p = param
             THEN PSParameter(gid, requires_grad[param], param_type, data_type, name)
             ELSE attrs[p]]
    ELSE attrs

\* ----------------------------------------------------------- FP16_f_adamv2
\* client.access_data(param, device): the data tensor is COMPUTE and points
\* into its chunk
access_data(pst, param) ==
    [pst EXCEPT ![<<param, "DATA">>] = set_tensor(set_state(@, "COMPUTE"), "view1")]

\* client.release_data(param, reset_to_status)
release_data(pst, param, status) ==
    [pst EXCEPT ![<<param, "DATA">>] = set_state(@, status)]

\* client.release_grad(param, reset_to_status)
release_grad(pst, param, status) ==
    [pst EXCEPT ![<<param, "GRAD">>] = set_state(@, status)]

\* client.fp16_to_fp32_copy(param, access_type): a copy of the payload in a
\* buffer, the tensor's status is not changed
fp16_to_fp32_copy(pst, param, access_type) == pst

\* the status release_data gives a tensor when the caller names none
DefaultReleaseStatus == "HOLD"

\* the body of the loop without its last release
AdamBody_KeepExpAvgSq ==
    <<"access_data(param)", "fp16_to_fp32_copy(fp16_param)", "release_grad(fp16_param, FREE)",
      "access_data(exp_avg_param)", "access_data(exp_avg_sq_param)",
      "access_data(fp16_param)", "release_data(fp16_param, HOLD)", "release_data(param)",
      "release_data(exp_avg_param)">>

\* the client calls of one iteration of the loop, in program order
AdamBody ==
    <<"access_data(param)", "fp16_to_fp32_copy(fp16_param)", "release_grad(fp16_param, FREE)",
      "access_data(exp_avg_param)", "access_data(exp_avg_sq_param)",
      "access_data(fp16_param)", "release_data(fp16_param, HOLD)", "release_data(param)",
      "release_data(exp_avg_param)", "release_data(exp_avg_sq_param)">>

\* the calls of the body that make a tensor resident
AdamAccesses ==
    {"access_data(param)", "access_data(exp_avg_param)", "access_data(exp_avg_sq_param)",
     "access_data(fp16_param)"}

\* the tensors after one client call of iteration i
AdamExec(stmt, pst, i) ==
    LET param == AdamParam("fp32_params", i)
        fp16_param == AdamParam("fp16_param_with_grad_list", i)
        exp_avg_param == AdamParam("exp_avgs", i)
        exp_avg_sq_param == AdamParam("exp_avg_sqs", i)
    IN  CASE stmt = "access_data(param)" -> access_data(pst, param)
          [] stmt = "fp16_to_fp32_copy(fp16_param)" -> fp16_to_fp32_copy(pst, fp16_param, "GRAD")
          [] stmt = "release_grad(fp16_param, FREE)" -> release_grad(pst, fp16_param, "FREE")
          [] stmt = "access_data(exp_avg_param)" -> access_data(pst, exp_avg_param)
          [] stmt = "access_data(exp_avg_sq_param)" -> access_data(pst, exp_avg_sq_param)
          [] stmt = "access_data(fp16_param)" -> access_data(pst, fp16_param)
          [] stmt = "release_data(fp16_param, HOLD)" -> release_data(pst, fp16_param, "HOLD")
          [] stmt = "release_data(param)" -> release_data(pst, param, DefaultReleaseStatus)
          [] stmt = "release_data(exp_avg_param)" ->
                 release_data(pst, exp_avg_param, DefaultReleaseStatus)
          [] stmt = "release_data(exp_avg_sq_param)" ->
                 release_data(pst, exp_avg_sq_param, DefaultReleaseStatus)

\* the last statement, reading adam_start_time, which is bound under time_profile only
AdamEnd(time_profile) == IF time_profile THEN "None" ELSE "UnboundLocalError"

\* ------------------------------------------------------------------- comm
\* CommGroupInfo.__init__; __eq__ and __hash__ compare (chunk_type, id)
CommGroupInfo(chunk_type, id) == [chunk_type |-> chunk_type, id |-> id]

\* the assertion of CommInfo.__init__ accepting offset = world_size
CommInfoAssert_AtMost(offset) == offset <= world_size

\* the assertion of CommInfo.__init__
CommInfoAssert(offset) == offset < world_size

\* CommInfo.__init__ past its assertion
CommInfo(chunk_type, group_id, offset) ==
    [group |-> CommGroupInfo(chunk_type, group_id), offset |-> offset]

\* ----------------------------------------------------------------- engine
\* chunk.set_unused()
set_unused(chunk) == [chunk EXCEPT !.unused = TRUE]

\* client.set_all_tensors_status_in_chunk(chunk_id, status)
set_all_tensors_status_in_chunk(chunk, status) ==
    [chunk EXCEPT !.tensors = [i \in DOMAIN @ |-> status], !.status = status]

\* the chunk test of _set_status_after_forward without its HOLD disjunct
ResetAfterForward_OnlyAfterFwd(chunk) == chunk.status = "HOLD_AFTER_FWD"

\* the chunk test of _set_status_after_forward
ResetAfterForward(chunk) == chunk.status = "HOLD" \/ chunk.status = "HOLD_AFTER_FWD"

\* PatrickStarEngine._set_status_after_forward: the chunk list after it
_set_status_after_forward(cl) ==
    [c \in DOMAIN cl |->
        IF ResetAfterForward(cl[c])
        THEN set_all_tensors_status_in_chunk(set_unused(cl[c]), "HOLD")
        ELSE cl[c]]

\* ------------------------------------------------------ PatrickStarEngine
NoOptimizer ==
    [created |-> FALSE, params |-> EmptyDict, use_adamw |-> FALSE,
     loss_scaler |-> "None", gradient_clipping |-> 0]

\* the optimizer type test of PatrickStarEngine.__init__ letting every type through
OptimSupported_Any(optim_type) == TRUE

\* the optimizer type test of PatrickStarEngine.__init__
OptimSupported(optim_type) == optim_type \in {"Adam", "AdamW"}

\* optim_config.get("type", ...) of PatrickStarEngine.__init__
OptimType(config) ==
    IF config.none THEN default_optim_config.type
    ELSE Get(Get(config.dict, "optimizer", default_optim_config), "type",
             default_optim_config.type)

\* optim_params of PatrickStarEngine.__init__ after the defaults are filled in
OptimParams(config) ==
    IF config.none THEN default_optim_config.params
    ELSE LET optim_params == Get(Get(config.dict, "optimizer", default_optim_config),
                                 "params", default_optim_config.params)
         IN  [key \in DOMAIN optim_params \cup DOMAIN default_optim_config.params |->
                 IF key \in DOMAIN optim_params THEN optim_params[key]
                 ELSE default_optim_config.params[key]]

\* the loss scaler configuration: the exception it raises, "None" if none
LossScalerRaises(config) ==
    IF config.none \/ "fp16" \notin DOMAIN config.dict THEN "None"
    ELSE IF ~config.dict["fp16"].enabled THEN "AssertionError"
    ELSE IF "loss_scale" \notin DOMAIN config.dict["fp16"] THEN "AssertionError"
    ELSE "None"

\* self.loss_scaler when the configuration is accepted
LossScalerOf(config) ==
    IF config.none \/ "fp16" \notin DOMAIN config.dict THEN "None"
    ELSE IF config.dict["fp16"].loss_scale = 0 THEN "DynamicLossScaler"
    ELSE "LossScaler"

\* self.gradient_clipping
GradientClipping(config) ==
    IF config.none THEN -1 ELSE Get(config.dict, "gradient_clipping", -1)

\* PatrickStarEngine.__init__(model, client, config): the exception raised, the
\* optimizer created and whether client.init was called
EngineInit(config) ==
    IF ~config.none /\ ~OptimSupported(OptimType(config))
    THEN [exception |-> "ValueError", optimizer |-> NoOptimizer, client_init |-> FALSE]
    ELSE IF LossScalerRaises(config) # "None"
    THEN [exception |-> LossScalerRaises(config), optimizer |-> NoOptimizer,
          client_init |-> FALSE]
    ELSE [exception |-> "None",
          optimizer |-> [created |-> TRUE, params |-> OptimParams(config),
                         use_adamw |-> (OptimType(config) = "AdamW"),
                         loss_scaler |-> LossScalerOf(config),
                         gradient_clipping |-> GradientClipping(config)],
          client_init |-> TRUE]

\* ------------------------------------------------------- initialize_engine
NoClient ==
    [built |-> FALSE, default_chunk_size |-> 0, release_after_init |-> FALSE,
     use_cpu_embedding |-> FALSE, init |-> FALSE, mem_tracer |-> FALSE]

\* a client made by the caller
GivenClient ==
    [built |-> TRUE, default_chunk_size |-> 64, release_after_init |-> FALSE,
     use_cpu_embedding |-> FALSE, init |-> FALSE, mem_tracer |-> FALSE]

\* the call failed before an engine was made
InitFailed(raised, client) ==
    [exception |-> raised, client |-> client, optimizer |-> NoOptimizer,
     returned |-> FALSE]

\* engine = PatrickStarEngine(model, client, config) and what follows it
WithEngine(client, config) ==
    LET e == EngineInit(config)
    IN  IF e.exception # "None"
        THEN InitFailed(e.exception, [client EXCEPT !.init = e.client_init])
        ELSE [exception |-> "None",
              client |-> [client EXCEPT !.init = TRUE, !.mem_tracer = TRUE],
              optimizer |-> e.optimizer,
              returned |-> TRUE]

\* initialize_engine(model_func, local_rank, config, client)
initialize_engine(model_func, config, client) ==
    IF model_func = "module"
    THEN IF ~client.built THEN InitFailed("AssertionError", client)
         ELSE WithEngine(client, config)
    ELSE IF model_func # "callable" THEN InitFailed("AssertionError", client)
    ELSE IF config.none THEN InitFailed("AttributeError", client)
    ELSE WithEngine(
             [built |-> TRUE,
              default_chunk_size |-> Get(config.dict, "default_chunk_size", DEFAULT_CHUNK_SIZE),
              release_after_init |-> Get(config.dict, "release_after_init", FALSE),
              use_cpu_embedding |-> Get(config.dict, "use_cpu_embedding", TRUE),
              init |-> FALSE, mem_tracer |-> FALSE],
             config)

\* ---------------------------------------------------------------- actions
\* the state after construction, but for the chunk map
PolicyConstructed ==
    /\ chunk_access_dict = <<>>
    /\ chunk_release_dict = <<>>
    /\ moment = 0
    /\ is_warmup = TRUE
    /\ total_moment = 0
    /\ op = [name |-> "init", chunk_id |-> 0, dev |-> NoDevice]
    /\ need_bytes = 0
    /\ target_device = NoDevice
    /\ movable_chunk_info = <<>>
    /\ moved_list = <<>>
    /\ log = {}
    /\ next_mom = 0
    /\ exception = "None"
    /\ traced = <<>>
    /\ released = <<>>

\* register_param on the parameters: new PSTensors, ids in creation order
ParamsRegistered ==
    /\ ps_tensor = [k \in Params \X AccessType |->
                       PSTensor(2 * (k[1] - 1) + (IF k[2] = "DATA" THEN 0 ELSE 1))]
    /\ pop = [name |-> "init", param |-> 0, access_type |-> "DATA", arg |-> "None",
              again |-> FALSE, had |-> NoTensor]
    /\ ret = NoTensor

\* no CommInfo constructed yet
NoCommCall == [chunk_type |-> "None", group_id |-> 0, offset |-> 0, exception |-> "None"]

CommIdle ==
    /\ world_size = 1
    /\ comm_infos = <<>>
    /\ comm_call = NoCommCall

\* no forward pass run yet, no chunk in the chunk list
NoFwdCall == [name |-> "None", module_end |-> <<>>]

FwdIdle ==
    /\ chunk_list = <<>>
    /\ fwd_call = NoFwdCall

\* no parameter registered through register_param, no PSTensor created
NoRegCall ==
    [name |-> "None", param |-> 0, param_type |-> "None", data_type |-> "None",
     pname |-> "None", access_type |-> "None", registered |-> FALSE, ret |-> 0,
     exception |-> "None"]

RegIdle ==
    /\ global_id = 0
    /\ ps_attr = <<>>
    /\ ps_tensors = <<>>
    /\ reg_call = NoRegCall

\* FP16_f_adamv2 not called
NoAdamCall == [name |-> "None", i |-> 0, pc |-> 0, time_profile |-> TRUE, exception |-> "None"]

AdamIdle == adam_call = NoAdamCall

\* no engine initialised
NoInitCall == [name |-> "None"]

InitIdle ==
    /\ init_call = NoInitCall
    /\ init_result = [exception |-> "None"]

Constructed ==
    /\ PolicyConstructed
    /\ ParamsRegistered
    /\ CommIdle
    /\ FwdIdle
    /\ RegIdle
    /\ AdamIdle
    /\ InitIdle

Init == Constructed /\ id_to_chunk_map = <<>>

InitFilter == Constructed /\ id_to_chunk_map \in FilterMaps

InitRank == Constructed /\ id_to_chunk_map \in RankMaps

\* a chunk access: the policy traces it and the metronome ticks
Access(chunk_id, dev) ==
    /\ moment < MaxMoment
    /\ chunk_access_dict' = trace_access(chunk_id, dev)
    /\ tiktac
    /\ op' = [name |-> "trace_access", chunk_id |-> chunk_id, dev |-> dev]
    /\ traced' = IF is_warmup
                  THEN Append(traced, [chunk_id |-> chunk_id, dev |-> dev, mom |-> moment])
                  ELSE traced
    /\ exception' = "None"
    /\ NoCall
    /\ UNCHANGED <<chunk_release_dict, is_warmup, total_moment, next_mom, id_to_chunk_map,
                   released, paramvars, extvars>>

\* the warm-up iteration ends: total_moment is captured
EndWarmup ==
    /\ is_warmup
    /\ is_warmup' = FALSE
    /\ total_moment' = moment
    /\ op' = [name |-> "end_warmup", chunk_id |-> 0, dev |-> NoDevice]
    /\ NoCall
    /\ exception' = "None"
    /\ UNCHANGED <<dicts, moment, next_mom, id_to_chunk_map, history, paramvars, extvars>>

\* PatrickStarEngine._reset_before_forward: mgr.reset_metronome()
ResetMetronome ==
    /\ ~is_warmup
    /\ moment' = 0
    /\ op' = [name |-> "reset_metronome", chunk_id |-> 0, dev |-> NoDevice]
    /\ NoCall
    /\ exception' = "None"
    /\ UNCHANGED <<dicts, is_warmup, total_moment, next_mom, id_to_chunk_map,
                   history, paramvars, extvars>>

\* a call of _chunk_next_used_moment(chunk_id, dev)
PredictNextAccess(chunk_id, dev) ==
    /\ next_mom' = _chunk_next_used_moment(chunk_id, dev)
    /\ op' = [name |-> "predict_next_access", chunk_id |-> chunk_id, dev |-> dev]
    /\ NoCall
    /\ exception' = "None"
    /\ UNCHANGED <<dicts, metro, id_to_chunk_map, history, paramvars, extvars>>

\* derive_eviction_list taking the chunks it returns out of the map
DeriveEvictionList_Popping(need, target) ==
    LET info == MovableChunkInfo(id_to_chunk_map, target)
        moved == EvictLoop(FillQueue(info), <<>>, 0, need)
    IN  /\ need_bytes' = need
        /\ target_device' = target
        /\ movable_chunk_info' = info
        /\ moved_list' = moved.list
        /\ log' = IF moved.bytes < need
                  THEN {[device |-> target, need_bytes |-> need, moved_bytes |-> moved.bytes]}
                  ELSE {}
        /\ op' = [name |-> "derive_eviction_list", chunk_id |-> 0, dev |-> NoDevice]
        /\ exception' = "None"
        /\ id_to_chunk_map' = [c \in DOMAIN id_to_chunk_map \ Range(moved.list) |->
                                  id_to_chunk_map[c]]
        /\ UNCHANGED <<dicts, metro, next_mom, history, paramvars, extvars>>

\* a call of derive_eviction_list(id_to_chunk_map, need, target)
DeriveEvictionList(need, target) ==
    LET info == MovableChunkInfo(id_to_chunk_map, target)
        moved == EvictLoop(FillQueue(info), <<>>, 0, need)
    IN  /\ need_bytes' = need
        /\ target_device' = target
        /\ movable_chunk_info' = info
        /\ moved_list' = moved.list
        /\ log' = IF moved.bytes < need
                  THEN {[device |-> target, need_bytes |-> need, moved_bytes |-> moved.bytes]}
                  ELSE {}
        /\ op' = [name |-> "derive_eviction_list", chunk_id |-> 0, dev |-> NoDevice]
        /\ exception' = "None"
        /\ UNCHANGED <<dicts, metro, next_mom, id_to_chunk_map, history, paramvars, extvars>>

\* a call of trace_release(chunk_id, dev)
TraceRelease(chunk_id, dev) ==
    /\ is_warmup => Len(released) < MaxRelease
    /\ chunk_release_dict' = trace_release(chunk_id, dev)
    /\ exception' = IF trace_release_raises(chunk_id, dev) THEN "KeyError" ELSE "None"
    /\ released' = IF is_warmup
                    THEN Append(released, [chunk_id |-> chunk_id, dev |-> dev, mom |-> moment])
                    ELSE released
    /\ op' = [name |-> "trace_release", chunk_id |-> chunk_id, dev |-> dev]
    /\ NoCall
    /\ UNCHANGED <<chunk_access_dict, metro, next_mom, id_to_chunk_map, traced, paramvars, extvars>>

\* the frame of a PSParameter operation
ParamFrame ==
    UNCHANGED <<dicts, metro, op, id_to_chunk_map, need_bytes, target_device,
                movable_chunk_info, moved_list, log, next_mom, exception, history,
                extvars>>

\* pop after the operation name(param, access_type, arg): the call, whether it
\* repeats the call before it, and the handle the tensor had when it was made
ParamOp(name, param, access_type, arg) ==
    LET call == [name |-> name, param |-> param, access_type |-> access_type, arg |-> arg]
    IN  [name |-> name, param |-> param, access_type |-> access_type, arg |-> arg,
         again |-> (call = [name |-> pop.name, param |-> pop.param,
                            access_type |-> pop.access_type, arg |-> pop.arg]),
         had |-> ps_tensor[<<param, access_type>>].tensor]

\* a call of ps_attr.set_tensor(view, access_type) on a parameter
SetTensor(param, access_type, view) ==
    /\ ps_tensor' = [ps_tensor EXCEPT ![<<param, access_type>>] = set_tensor(@, view)]
    /\ pop' = ParamOp("set_tensor", param, access_type, view)
    /\ ret' = NoTensor
    /\ ParamFrame

\* a call of ps_attr.set_state(state, access_type) on a parameter
SetState(param, access_type, state) ==
    /\ ps_tensor' = [ps_tensor EXCEPT ![<<param, access_type>>] = set_state(@, state)]
    /\ pop' = ParamOp("set_state", param, access_type, state)
    /\ ret' = NoTensor
    /\ ParamFrame

\* a release of a tensor of a parameter to state (client.release_data,
\* client.release_grad): the tensor takes the state through set_state
Release(param, access_type, state) ==
    /\ ps_tensor' = [ps_tensor EXCEPT ![<<param, access_type>>] = set_state(@, state)]
    /\ pop' = ParamOp("release", param, access_type, state)
    /\ ret' = NoTensor
    /\ ParamFrame

\* a call of ps_attr.access_tensor(access_type) on a parameter
AccessTensor(param, access_type) ==
    /\ ret' = access_tensor(ps_tensor[<<param, access_type>>])
    /\ pop' = ParamOp("access_tensor", param, access_type, "None")
    /\ UNCHANGED ps_tensor
    /\ ParamFrame

\* the frame of an operation of parameter.py on the params of register_param
RegFrame ==
    UNCHANGED <<policyvars, paramvars, commvars, fwdvars, adamvars, initvars>>

\* a call of PSTensor()
NewPSTensor ==
    /\ Len(ps_tensors) < MaxTensors
    /\ ps_tensors' = Append(ps_tensors, PSTensor(global_id).id)
    /\ global_id' = NextGlobalId(global_id)
    /\ reg_call' = [NoRegCall EXCEPT !.name = "PSTensor", !.ret = PSTensor(global_id).id]
    /\ UNCHANGED ps_attr
    /\ RegFrame

\* a call of register_param(param, param_type, data_type, name)
RegisterParam(param, param_type, data_type, name) ==
    LET attrs == register_param(ps_attr, global_id, param, param_type, data_type, name)
        made == IF attrs = ps_attr THEN <<>> ELSE TensorIds(attrs[param])
    IN  /\ is_param_registered(ps_attr, param) \/ Len(ps_tensors) + 2 <= MaxTensors
        /\ ps_attr' = attrs
        /\ ps_tensors' = ps_tensors \o made
        /\ global_id' = IF attrs = ps_attr THEN global_id
                        ELSE GlobalIdAfter(global_id, attrs[param])
        /\ reg_call' = [NoRegCall EXCEPT !.name = "register_param", !.param = param,
                                         !.param_type = param_type, !.data_type = data_type,
                                         !.pname = name,
                                         !.registered = is_param_registered(ps_attr, param)]
        /\ RegFrame

\* a call of param.ps_attr.get_tensor_id(access_type)
GetTensorId(param, access_type) ==
    /\ is_param_registered(ps_attr, param)
    /\ LET r == get_tensor_id(ps_attr[param], access_type)
       IN  reg_call' = [NoRegCall EXCEPT !.name = "get_tensor_id", !.param = param,
                                        !.access_type = access_type, !.registered = TRUE,
                                        !.ret = r.ret, !.exception = r.exception]
    /\ UNCHANGED <<global_id, ps_attr, ps_tensors>>
    /\ RegFrame

\* a call of param.ps_attr.set_state(state, access_type), after set_tensor when
\* the state is COMPUTE
RegSetState(param, access_type, state) ==
    /\ is_param_registered(ps_attr, param)
    /\ _access_ps_tensor(ps_attr[param], access_type).ret # <<>>
    /\ LET t == _access_ps_tensor(ps_attr[param], access_type).ret[1]
           u == IF state = "COMPUTE" THEN set_state(set_tensor(t, "view1"), state)
                ELSE set_state(t, state)
       IN  ps_attr' = IF access_type = "DATA"
                      THEN [ps_attr EXCEPT ![param].data_tensor = <<u>>]
                      ELSE [ps_attr EXCEPT ![param].grad_tensor = <<u>>]
    /\ reg_call' = [NoRegCall EXCEPT !.name = "set_state", !.param = param,
                                     !.access_type = access_type, !.registered = TRUE]
    /\ UNCHANGED <<global_id, ps_tensors>>
    /\ RegFrame

\* the frame of a step of FP16_f_adamv2
AdamFrame ==
    UNCHANGED <<dicts, metro, op, id_to_chunk_map, need_bytes, target_device,
                movable_chunk_info, moved_list, log, next_mom, exception, history,
                pop, ret, commvars, fwdvars, regvars, initvars>>

\* FP16_f_adamv2 is entered
AdamCall(time_profile) ==
    /\ adam_call = NoAdamCall
    /\ adam_call' = [name |-> "FP16_f_adamv2", i |-> 1, pc |-> 1,
                     time_profile |-> time_profile, exception |-> "None"]
    /\ UNCHANGED ps_tensor
    /\ AdamFrame

\* whether FP16_f_adamv2 is inside its loop
AdamInLoop ==
    /\ adam_call.name = "FP16_f_adamv2"
    /\ adam_call.exception = "None"
    /\ adam_call.i <= MaxAdamParams

\* the next client call of the loop body runs
AdamStatement ==
    /\ AdamInLoop
    /\ ps_tensor' = AdamExec(AdamBody[adam_call.pc], ps_tensor, adam_call.i)
    /\ adam_call' = IF adam_call.pc < Len(AdamBody)
                    THEN [adam_call EXCEPT !.pc = @ + 1]
                    ELSE [adam_call EXCEPT !.i = @ + 1, !.pc = 1]
    /\ AdamFrame

\* access_data finds no room for the chunk and raises
AdamAccessFails ==
    /\ AdamInLoop
    /\ AdamBody[adam_call.pc] \in AdamAccesses
    /\ adam_call' = [adam_call EXCEPT !.exception = "RuntimeError"]
    /\ UNCHANGED ps_tensor
    /\ AdamFrame

\* the loop is over: the timers are updated and the function returns
AdamReturn ==
    /\ adam_call.name = "FP16_f_adamv2"
    /\ adam_call.exception = "None"
    /\ adam_call.i = MaxAdamParams + 1
    /\ adam_call' = [adam_call EXCEPT !.name = "returned",
                                      !.exception = AdamEnd(adam_call.time_profile)]
    /\ UNCHANGED ps_tensor
    /\ AdamFrame

\* a construction CommInfo(chunk_type, group_id, offset)
NewCommInfo(chunk_type, group_id, offset) ==
    /\ Len(comm_infos) < MaxComm
    /\ comm_infos' = IF CommInfoAssert(offset)
                      THEN Append(comm_infos, CommInfo(chunk_type, group_id, offset))
                      ELSE comm_infos
    /\ comm_call' = [chunk_type |-> chunk_type, group_id |-> group_id, offset |-> offset,
                     exception |-> IF CommInfoAssert(offset) THEN "None" ELSE "AssertionError"]
    /\ UNCHANGED <<world_size, policyvars, paramvars, fwdvars, regvars, adamvars, initvars>>

\* PatrickStarEngine.forward: the metronome is reset, the module computes and
\* leaves the chunk list as module_end, then _set_status_after_forward runs
Forward(module_end) ==
    /\ fwd_call.name = "None"
    /\ moment' = 0
    /\ chunk_list' = _set_status_after_forward(module_end)
    /\ fwd_call' = [name |-> "forward", module_end |-> module_end]
    /\ UNCHANGED <<dicts, is_warmup, total_moment, op, id_to_chunk_map, need_bytes,
                   target_device, movable_chunk_info, moved_list, log, next_mom,
                   exception, history>>
    /\ UNCHANGED <<paramvars, commvars, regvars, adamvars, initvars>>

\* the frame of an engine construction
InitFrame == UNCHANGED <<policyvars, paramvars, commvars, fwdvars, regvars, adamvars>>

\* a call of initialize_engine(model_func, local_rank, config, client)
InitializeEngine(model_func, config, client) ==
    /\ init_call = NoInitCall
    /\ init_call' = [name |-> "initialize_engine", model_func |-> model_func,
                     config |-> config, client |-> client]
    /\ init_result' = initialize_engine(model_func, config, client)
    /\ InitFrame

\* a construction PatrickStarEngine(model, client, config)
NewEngine(config) ==
    /\ init_call = NoInitCall
    /\ init_call' = [name |-> "PatrickStarEngine", model_func |-> "module",
                     config |-> config, client |-> GivenClient]
    /\ init_result' =
           LET e == EngineInit(config)
           IN  [exception |-> e.exception,
                client |-> [GivenClient EXCEPT !.init = e.client_init],
                optimizer |-> e.optimizer,
                returned |-> (e.exception = "None")]
    /\ InitFrame

\* the tracer and the predictor
Next ==
    \/ \E c \in TracedChunks, d \in Devices : Access(c, d)
    \/ EndWarmup
    \/ ResetMetronome
    \/ \E c \in Chunks, d \in Devices : PredictNextAccess(c, d)

Spec == Init /\ [][Next]_vars

\* the candidate filter: every chunk map, in warm-up and after it
NextFilter ==
    \/ EndWarmup
    \/ \E n \in 0..MaxNeed, t \in Devices : DeriveEvictionList(n, t)

SpecFilter == InitFilter /\ [][NextFilter]_vars

\* the ranking: recorded patterns of up to MaxRankMoment accesses
NextRank ==
    \/ \E c \in Chunks : moment < MaxRankMoment /\ Access(c, cuda0)
    \/ EndWarmup
    \/ ResetMetronome
    \/ \E n \in 0..MaxNeed, t \in RankTargets : DeriveEvictionList(n, t)

SpecRank == InitRank /\ [][NextRank]_vars

\* scenario A: two chunks traced on cuda0, predicted and evicted there
InitScenario == Constructed /\ id_to_chunk_map \in ScenarioMaps

NextScenario ==
    \/ \E c \in TracedChunks : Access(c, cuda0)
    \/ EndWarmup
    \/ ResetMetronome
    \/ \E c \in TracedChunks : PredictNextAccess(c, cuda0)
    \/ \E n \in 0..MaxNeed : DeriveEvictionList(n, cuda0)

SpecScenario == InitScenario /\ [][NextScenario]_vars

\* the tracer: accesses and releases in warm-up and after it
InitTrace == Constructed /\ id_to_chunk_map = TraceMap

NextTrace ==
    \/ \E d \in TraceDevices : moment < MaxRankMoment /\ Access(TraceChunk, d)
    \/ \E d \in TraceDevices : TraceRelease(TraceChunk, d)
    \/ EndWarmup
    \/ ResetMetronome
    \/ \E t \in TraceDevices : DeriveEvictionList(MaxNeed, t)

SpecTrace == InitTrace /\ [][NextTrace]_vars

\* the PSParameter operations on the registered parameters
NextParam ==
    \/ \E p \in Params, a \in AccessType, v \in Views : SetTensor(p, a, v)
    \/ \E p \in Params, a \in AccessType, st \in TensorState : SetState(p, a, st)
    \/ \E p \in Params, a \in AccessType : AccessTensor(p, a)
    \/ \E p \in Params, a \in AccessType, st \in ReleaseState : Release(p, a, st)

SpecParam == Init /\ [][NextParam]_vars

\* the CommInfo constructions of a job of any world size
InitComm ==
    /\ PolicyConstructed
    /\ id_to_chunk_map = <<>>
    /\ ParamsRegistered
    /\ world_size \in 1..MaxWorld
    /\ comm_infos = <<>>
    /\ comm_call = NoCommCall
    /\ FwdIdle
    /\ RegIdle
    /\ AdamIdle
    /\ InitIdle

NextComm ==
    \E t \in ChunkType, g \in GroupIds, o \in Offsets : NewCommInfo(t, g, o)

SpecComm == InitComm /\ [][NextComm]_vars

\* a forward pass of the engine over every outcome of the module
NextForward == \E module_end \in ModuleEnds : Forward(module_end)

SpecForward == Init /\ [][NextForward]_vars

\* one engine made per run, through initialize_engine or directly
NextEngine ==
    \/ /\ init_call = NoInitCall
       /\ \E m \in ModelFuncs, c \in Configs, cl \in {NoClient, GivenClient} :
              InitializeEngine(m, c, cl)
    \/ /\ init_call = NoInitCall
       /\ \E c \in Configs : NewEngine(c)

SpecEngine == Init /\ [][NextEngine]_vars

\* the creations and registrations of parameter.py
NextRegister ==
    \/ NewPSTensor
    \/ \E p \in RegParams, pt \in ParamType, dt \in DataTypes, n \in Names :
           RegisterParam(p, pt, dt, n)
    \/ \E p \in RegParams, a \in AccessArgs : GetTensorId(p, a)
    \/ \E p \in RegParams, a \in AccessType, st \in RegStates : RegSetState(p, a, st)

SpecRegister == Init /\ [][NextRegister]_vars

\* an optimizer step: FP16Adam.step has released the gradient of every fp16
\* parameter to HOLD and its data to FREE; the optimizer's own tensors rest
InitAdam ==
    /\ PolicyConstructed
    /\ id_to_chunk_map = <<>>
    /\ ps_tensor \in {pst \in [AdamTensors -> [tensor : {NoTensor}, id : {0},
                                                state : AdamRestState]] :
                          \A i \in 1..MaxAdamParams :
                              LET fp16_param == AdamParam("fp16_param_with_grad_list", i)
                              IN  /\ pst[<<fp16_param, "GRAD">>].state = "HOLD"
                                  /\ pst[<<fp16_param, "DATA">>].state = "FREE"}
    /\ pop = [name |-> "init", param |-> 0, access_type |-> "DATA", arg |-> "None",
              again |-> FALSE, had |-> NoTensor]
    /\ ret = NoTensor
    /\ CommIdle
    /\ FwdIdle
    /\ RegIdle
    /\ AdamIdle
    /\ InitIdle

NextAdam ==
    \/ \E time_profile \in BOOLEAN : AdamCall(time_profile)
    \/ AdamStatement
    \/ AdamAccessFails
    \/ AdamReturn

SpecAdam == InitAdam /\ [][NextAdam]_vars

\* ------------------------------------------------------------------ claims
Called == op.name = "derive_eviction_list"

Predicted == op.name = "predict_next_access"

Min(S) == CHOOSE m \in S : \A n \in S : m <= n

RECURSIVE SumBytes(_)
\* the payload bytes of a list of chunk ids
SumBytes(list) == IF list = <<>> THEN 0 ELSE get_payload_space(Head(list)) + SumBytes(Tail(list))

RECURSIVE SumSet(_)
\* the payload bytes of a set of chunk ids
SumSet(S) == IF S = {} THEN 0 ELSE LET c == Min(S) IN get_payload_space(c) + SumSet(S \ {c})

\* the state part of the candidate filter of spec 4.4
StateEligible(chunk) == chunk.state \in {"HOLD", "HOLD_AFTER_FWD", "HOLD_AFTER_BWD"}

\* the eligible chunks of spec 4.4: on target_device, eligible state, not pinned
Eligible ==
    {c \in DOMAIN id_to_chunk_map :
        /\ id_to_chunk_map[c].device = target_device
        /\ StateEligible(id_to_chunk_map[c])
        /\ ~id_to_chunk_map[c].pin}

\* the same filter on the device type alone
TypeEligible ==
    {c \in DOMAIN id_to_chunk_map :
        /\ id_to_chunk_map[c].device.type = target_device.type
        /\ StateEligible(id_to_chunk_map[c])
        /\ ~id_to_chunk_map[c].pin}

Returned == Range(moved_list)

\* the predicted next-access moment of chunk c on the target of the last call
Pred(c) == _chunk_next_used_moment(c, target_device)

\* c ranks before r: later predicted moment, then smaller chunk id
RanksBefore(c, r) == Pred(c) > Pred(r) \/ (Pred(c) = Pred(r) /\ c < r)

\* C1: the list derive_eviction_list returns holds no chunk in state COMPUTE,
\* RELEASED or FREE and no chunk whose device is None, in warm-up and after it.
C1_NoBusyOrAbsentEvicted ==
    Called =>
        \A i \in 1..Len(moved_list) :
            /\ id_to_chunk_map[moved_list[i]].state \notin {"COMPUTE", "RELEASED", "FREE"}
            /\ id_to_chunk_map[moved_list[i]].device # NoDevice

\* a call after warm-up that evicts a chunk while an unpinned COMPUTE or FREE
\* chunk sits on the target device
C1_Witness ==
    /\ Called
    /\ ~is_warmup
    /\ moved_list # <<>>
    /\ \E c \in DOMAIN id_to_chunk_map :
           /\ id_to_chunk_map[c].state \in {"COMPUTE", "FREE"}
           /\ id_to_chunk_map[c].device = target_device
           /\ ~id_to_chunk_map[c].pin

\* C2: a pinned chunk is never returned, and when the only chunk on the target
\* device that is eligible by state is pinned the returned list is empty.
C2_PinnedNeverEvicted ==
    Called =>
        /\ \A i \in 1..Len(moved_list) : ~id_to_chunk_map[moved_list[i]].pin
        /\ LET onTarget == {c \in DOMAIN id_to_chunk_map :
                               /\ id_to_chunk_map[c].device = target_device
                               /\ StateEligible(id_to_chunk_map[c])}
           IN  (Cardinality(onTarget) = 1 /\ \A c \in onTarget : id_to_chunk_map[c].pin)
                   => moved_list = <<>>

\* C3: every chunk returned resides on target_device itself.
C3_OnlyTargetDevice ==
    Called => \A i \in 1..Len(moved_list) : id_to_chunk_map[moved_list[i]].device = target_device

\* C4: for every need_bytes >= 0 the returned list is the shortest prefix that
\* reaches need_bytes: without its last chunk the sum is below need_bytes (so
\* the list is empty when need_bytes is 0), and it reaches need_bytes unless
\* every candidate is returned.
C4_ShortestPrefix ==
    Called =>
        /\ moved_list # <<>> => SumBytes(SubSeq(moved_list, 1, Len(moved_list) - 1)) < need_bytes
        /\ SumBytes(moved_list) >= need_bytes \/ TypeEligible \subseteq Returned

\* C5: the returned list is in descending order of predicted next-access
\* moment, equal moments in ascending chunk id order, and no eligible chunk left
\* out ranks before a returned one.
C5_RankedOrder ==
    Called =>
        /\ \A i, j \in 1..Len(moved_list) : i < j => RanksBefore(moved_list[i], moved_list[j])
        /\ \A c \in TypeEligible \ Returned : \A r \in Returned : ~RanksBefore(c, r)

\* after warm-up two chunks with equal predicted moment are returned in id
\* order and an eligible chunk with a smaller predicted moment is left out
C5_Witness ==
    /\ Called
    /\ ~is_warmup
    /\ Len(moved_list) = 2
    /\ Pred(moved_list[1]) = Pred(moved_list[2])
    /\ \E c \in Eligible \ Returned : Pred(c) < Pred(moved_list[2])

\* C6: when the eligible chunks together hold less than need_bytes, every
\* eligible chunk is returned exactly once and a warning carries the shortfall
\* need_bytes minus the bytes freed.
C6_ShortfallReturnsAll ==
    (Called /\ SumSet(Eligible) < need_bytes) =>
        /\ \A c \in Eligible : Cardinality({i \in 1..Len(moved_list) : moved_list[i] = c}) = 1
        /\ log # {}
        /\ \A w \in log : w.need_bytes - w.moved_bytes = need_bytes - SumBytes(moved_list)

\* C7: after warm-up, for a recorded pair, the prediction is the smallest
\* recorded moment greater than the current moment, and total_moment plus the
\* smallest recorded moment when none is greater.
C7_SmallestLaterMoment ==
    (Predicted /\ ~is_warmup /\ ~NotRecorded(op.chunk_id, op.dev)) =>
        LET recorded == Range(chunk_access_dict[<<op.chunk_id, op.dev>>])
            later == {m \in recorded : m > moment}
        IN  IF later # {} THEN next_mom = Min(later)
            ELSE next_mom = total_moment + Min(recorded)

\* a prediction that skips a recorded moment and has two later ones to choose from
C7_Witness ==
    /\ Predicted
    /\ ~is_warmup
    /\ ~NotRecorded(op.chunk_id, op.dev)
    /\ LET recorded == Range(chunk_access_dict[<<op.chunk_id, op.dev>>])
       IN  /\ \E m \in recorded : m <= moment
           /\ Cardinality({m \in recorded : m > moment}) >= 2

\* C8: the prediction is periodic: at current moment total_moment + k, with
\* k < total_moment, it equals the prediction at current moment k.
C8_Periodic ==
    (/\ Predicted
     /\ ~is_warmup
     /\ ~NotRecorded(op.chunk_id, op.dev)
     /\ moment >= total_moment
     /\ moment - total_moment < total_moment) =>
        next_mom = NextUsedMomentAt(moment - total_moment, op.chunk_id, op.dev)

\* C9: after warm-up the prediction for a pair never recorded is 2 * total_moment,
\* whatever the current moment and the records of the chunk on other devices.
C9_NeverRecordedTwiceTotal ==
    (Predicted /\ ~is_warmup /\ NotRecorded(op.chunk_id, op.dev)) =>
        next_mom = 2 * total_moment

\* a prediction, later in the iteration, for a chunk recorded on another device only
C9_Witness ==
    /\ Predicted
    /\ ~is_warmup
    /\ NotRecorded(op.chunk_id, op.dev)
    /\ \E d \in Devices : ~NotRecorded(op.chunk_id, d)
    /\ moment > 0

\* C10: after warm-up an eligible chunk never recorded on the target device is
\* placed before every eligible recorded chunk: its predicted moment
\* 2 * total_moment is greater, and a recorded chunk is returned only after it.
C10_NeverRecordedFirst ==
    (Called /\ ~is_warmup) =>
        \A u, r \in Eligible :
            (NotRecorded(u, target_device) /\ ~NotRecorded(r, target_device)) =>
                /\ 2 * total_moment > Pred(r)
                /\ r \in Returned =>
                       \E i, j \in 1..Len(moved_list) :
                           i < j /\ moved_list[i] = u /\ moved_list[j] = r

\* a call in mid-iteration that returns a never-recorded chunk and a recorded
\* chunk with the smaller id
C10_Witness ==
    /\ Called
    /\ ~is_warmup
    /\ moment > 0
    /\ \E u, r \in Eligible \cap Returned :
           /\ NotRecorded(u, target_device)
           /\ ~NotRecorded(r, target_device)
           /\ r < u

\* the warm-up of scenario A has run: chunk 1, chunk 2, chunk 1 traced on cuda0
\* at moments 0, 1, 2, three moments in total, and the iteration restarted
ScenarioA ==
    /\ traced = << [chunk_id |-> 1, dev |-> cuda0, mom |-> 0],
                   [chunk_id |-> 2, dev |-> cuda0, mom |-> 1],
                   [chunk_id |-> 1, dev |-> cuda0, mom |-> 2] >>
    /\ ~is_warmup
    /\ total_moment = 3
    /\ moment = 0

\* C11: scenario A: after a warm-up that traced chunk 1, chunk 2, chunk 1 on
\* device D at moments 0, 1, 2 (3 moments in total), at current moment 0 the
\* prediction for (1, D) is 2 and for (2, D) is 1, and an eviction request on D
\* with both chunks eligible returns chunk 1 before chunk 2.
C11_ScenarioA ==
    ScenarioA =>
        /\ (Predicted /\ op.dev = cuda0 /\ op.chunk_id = 1) => next_mom = 2
        /\ (Predicted /\ op.dev = cuda0 /\ op.chunk_id = 2) => next_mom = 1
        /\ (Called /\ target_device = cuda0 /\ {1, 2} \subseteq Eligible) =>
               /\ moved_list # <<>>
               /\ moved_list[1] = 1
               /\ \A i \in 1..Len(moved_list) : moved_list[i] = 2 => i = 2

\* scenario A with an eviction request on cuda0 that takes both chunks
C11_Witness ==
    /\ ScenarioA
    /\ Called
    /\ target_device = cuda0
    /\ {1, 2} \subseteq Eligible
    /\ moved_list = <<1, 2>>

\* C12: during warm-up the prediction is 0 for every (chunk, device) pair,
\* recorded or not, at every moment.
C12_WarmupPredictsZero ==
    (Predicted /\ is_warmup) => next_mom = 0

\* a prediction in warm-up, at a later moment, for a pair with two records of
\* which one is still ahead had the pattern been in use
C12_Witness ==
    /\ Predicted
    /\ is_warmup
    /\ moment > 0
    /\ ~NotRecorded(op.chunk_id, op.dev)
    /\ Len(chunk_access_dict[<<op.chunk_id, op.dev>>]) >= 2

\* a prediction in warm-up for a pair never recorded, other pairs being recorded
C12_WitnessNotRecorded ==
    /\ Predicted
    /\ is_warmup
    /\ moment > 0
    /\ NotRecorded(op.chunk_id, op.dev)

\* the calls of a history made on the pair (c, d)
CallsOn(h, c, d) ==
    LET OnPair(t) == t.chunk_id = c /\ t.dev = d
    IN  SelectSeq(h, OnPair)

\* the moments of a list of calls, in call order
MomentsOf(calls) == [i \in 1..Len(calls) |-> calls[i].mom]

Ascending(list) == \A i, j \in 1..Len(list) : i < j => list[i] <= list[j]

\* a log holds, for each pair, the ascending list of the moments of the calls
\* the history h has for the pair, and nothing for a pair without calls
LogMatches(dict, h) ==
    \A c \in Chunks, d \in Devices :
        LET calls == CallsOn(h, c, d)
        IN  IF calls = <<>> THEN <<c, d>> \notin DOMAIN dict
            ELSE /\ <<c, d>> \in DOMAIN dict
                 /\ dict[<<c, d>>] = MomentsOf(calls)
                 /\ Ascending(dict[<<c, d>>])

RECURSIVE EntriesOver(_, _)
\* the number of moments a log holds for the pairs of keys
EntriesOver(dict, keys) ==
    IF keys = {} THEN 0
    ELSE LET k == CHOOSE x \in keys : TRUE
         IN  Len(dict[k]) + EntriesOver(dict, keys \ {k})

Entries(dict) == EntriesOver(dict, DOMAIN dict)

\* C13: trace_access and trace_release called outside warm-up leave the access
\* log and the release log unchanged: once warm-up has ended no step, whether
\* trace_access, trace_release or derive_eviction_list, changes either log.
C13_LogsFrozenAfterWarmup ==
    [][~is_warmup => (/\ chunk_access_dict' = chunk_access_dict
                      /\ chunk_release_dict' = chunk_release_dict)]_vars

\* a trace_release made after warm-up, at a new moment, for a pair both logs
\* could take an entry for
C13_Witness ==
    /\ ~is_warmup
    /\ op.name = "trace_release"
    /\ moment < total_moment
    /\ chunk_access_dict # <<>>
    /\ chunk_release_dict # <<>>

\* C14: after any sequence of trace_access calls during warm-up the access log
\* of each pair is sorted ascending and holds exactly one entry per call made
\* on the pair, equal to the moment of the call; pairs never traced have no entry.
C14_AccessLogRecordsEveryCall ==
    LogMatches(chunk_access_dict, traced)

\* in warm-up, one pair traced twice and another pair traced once in between
C14_Witness ==
    /\ is_warmup
    /\ \E k1, k2 \in DOMAIN chunk_access_dict :
           /\ k1 # k2
           /\ Len(chunk_access_dict[k1]) = 2
           /\ Len(chunk_access_dict[k2]) = 1
           /\ chunk_access_dict[k1][1] < chunk_access_dict[k2][1]
           /\ chunk_access_dict[k2][1] < chunk_access_dict[k1][2]

\* C15: the release log is symmetric to the access log: after any interleaving
\* of trace_access and trace_release calls during warm-up the release log of
\* each pair is the ascending list of the moments of the trace_release calls
\* made on the pair, whether or not the pair was ever accessed, and
\* trace_release never fails.
C15_ReleaseLogSymmetric ==
    /\ op.name = "trace_release" => exception = "None"
    /\ LogMatches(chunk_release_dict, released)

C17_DeriveReadsOnly ==
    [][op'.name = "derive_eviction_list" =>
           (/\ id_to_chunk_map' = id_to_chunk_map
            /\ UNCHANGED <<moment, is_warmup, total_moment>>
            /\ UNCHANGED <<chunk_access_dict, chunk_release_dict>>)]_vars

\* a call after warm-up, later in the iteration, that returns chunks
C17_Witness ==
    /\ Called
    /\ ~is_warmup
    /\ moment > 0
    /\ chunk_access_dict # <<>>
    /\ Len(moved_list) >= 2

\* the tensor the last PSParameter operation was called on
Target == <<pop.param, pop.access_type>>

\* C18: set_state to any state other than COMPUTE drops the payload handle of
\* the tensor: access_tensor returns the handle the tensor has, which stays None
\* until set_tensor sets one again; set_state to COMPUTE keeps the handle.
C18_SetStateDropsHandle ==
    [][/\ (pop'.name = "set_state" /\ pop'.arg # "COMPUTE") =>
              ps_tensor'[Target'].tensor = NoTensor
       /\ (pop'.name = "set_state" /\ pop'.arg = "COMPUTE") =>
              ps_tensor'[Target'].tensor = ps_tensor[Target'].tensor
       /\ pop'.name = "access_tensor" => ret' = ps_tensor[Target'].tensor
       /\ \A k \in DOMAIN ps_tensor :
              (ps_tensor[k].tensor = NoTensor /\ ps_tensor'[k].tensor # NoTensor) =>
                  (pop'.name = "set_tensor" /\ Target' = k)]_vars

\* a tensor in COMPUTE with a handle was set to HOLD and lost the handle, while
\* the other tensor of the parameter keeps its own
C18_Witness ==
    /\ pop.name = "set_state"
    /\ pop.arg = "HOLD"
    /\ pop.had # NoTensor
    /\ ps_tensor[Target].tensor = NoTensor
    /\ \E k \in DOMAIN ps_tensor : k # Target /\ ps_tensor[k].tensor # NoTensor

\* C19: at every point of any sequence of set_tensor and set_state calls on a
\* chunk based parameter a tensor has a payload handle only in state COMPUTE.
C19_HandleOnlyInCompute ==
    \A k \in DOMAIN ps_tensor :
        ps_tensor[k].tensor # NoTensor => ps_tensor[k].state = "COMPUTE"

C21_OffsetBelowWorldSize ==
    [][/\ \A i \in 1..Len(comm_infos') : comm_infos'[i].offset < world_size'
       /\ comm_call'.offset >= world_size' =>
              (comm_call'.exception = "AssertionError" /\ comm_infos' = comm_infos)]_vars

\* a construction with offset = world_size failed after one with the largest
\* offset allowed succeeded
C21_Witness ==
    /\ comm_call.exception = "AssertionError"
    /\ comm_call.offset = world_size
    /\ \E i \in 1..Len(comm_infos) : comm_infos[i].offset = world_size - 1

\* C23: when PatrickStarEngine.forward returns, every chunk that was in state
\* HOLD or HOLD_AFTER_FWD at the end of the module's forward computation has
\* all of its tensors in HOLD, so none of them is left in HOLD_AFTER_FWD.
C23_HeldChunksResetToHold ==
    fwd_call.name = "forward" =>
        \A c \in DOMAIN chunk_list :
            fwd_call.module_end[c].status \in {"HOLD", "HOLD_AFTER_FWD"} =>
                \A i \in DOMAIN chunk_list[c].tensors : chunk_list[c].tensors[i] = "HOLD"

\* forward returned; the module left a chunk in HOLD with one tensor in
\* HOLD_AFTER_FWD and one FREE, and a chunk in COMPUTE that keeps its tensor
C23_Witness ==
    /\ fwd_call.name = "forward"
    /\ fwd_call.module_end[1].status = "HOLD"
    /\ fwd_call.module_end[1].tensors = <<"HOLD_AFTER_FWD", "FREE">>
    /\ fwd_call.module_end[2].status = "COMPUTE"
    /\ chunk_list[2].tensors = <<"HOLD_AFTER_FWD">>

\* C24: config is optional for initialize_engine: called with a callable
\* model_func and config = None it does not fail, builds the client with
\* DEFAULT_CHUNK_SIZE and the default flags (release_after_init False,
\* use_cpu_embedding True), and returns the engine and its optimizer.
C24_ConfigOptional ==
    (/\ init_call.name = "initialize_engine"
     /\ init_call.model_func = "callable"
     /\ init_call.config.none) =>
        /\ init_result.exception = "None"
        /\ init_result.client.built
        /\ init_result.client.default_chunk_size = DEFAULT_CHUNK_SIZE
        /\ ~init_result.client.release_after_init
        /\ init_result.client.use_cpu_embedding
        /\ init_result.returned
        /\ init_result.optimizer.created

\* C30: constructing PatrickStarEngine with a config whose optimizer type is
\* neither Adam nor AdamW fails with ValueError before the optimizer is created
\* and before client.init is called; for Adam and AdamW every optimizer
\* parameter missing from the config takes its default value.
C30_OptimizerTypeChecked ==
    (init_call.name = "PatrickStarEngine" /\ ~init_call.config.none) =>
        LET optim_config == Get(init_call.config.dict, "optimizer", default_optim_config)
            optim_type == Get(optim_config, "type", "Adam")
            given == Get(optim_config, "params", DefaultOptimParams)
        IN  /\ optim_type \notin {"Adam", "AdamW"} =>
                   /\ init_result.exception = "ValueError"
                   /\ ~init_result.optimizer.created
                   /\ init_result.client = GivenClient
            /\ (optim_type \in {"Adam", "AdamW"} /\ init_result.optimizer.created) =>
                   \A key \in DOMAIN DefaultOptimParams :
                       /\ key \in DOMAIN init_result.optimizer.params
                       /\ key \notin DOMAIN given =>
                              init_result.optimizer.params[key] = DefaultOptimParams[key]
                       /\ key \in DOMAIN given =>
                              init_result.optimizer.params[key] = given[key]

\* an AdamW engine made from a config that gives only lr and eps
C30_Witness ==
    /\ init_call.name = "PatrickStarEngine"
    /\ ~init_call.config.none
    /\ "optimizer" \in DOMAIN init_call.config.dict
    /\ Get(init_call.config.dict["optimizer"], "type", "Adam") = "AdamW"
    /\ "params" \in DOMAIN init_call.config.dict["optimizer"]
    /\ DOMAIN init_call.config.dict["optimizer"]["params"] = {"lr", "eps"}
    /\ init_result.optimizer.created
    /\ init_result.optimizer.use_adamw

\* an engine refused for its optimizer type, SGD, with a client left as given
C30_WitnessRefused ==
    /\ init_call.name = "PatrickStarEngine"
    /\ ~init_call.config.none
    /\ "optimizer" \in DOMAIN init_call.config.dict
    /\ Get(init_call.config.dict["optimizer"], "type", "Adam") = "SGD"
    /\ "fp16" \in DOMAIN init_call.config.dict
    /\ init_result.exception = "ValueError"

\* C25: after a warm-up that recorded accesses no two distinct eligible chunks
\* have the same predicted next-access moment, so the chunk id tie-break of
\* derive_eviction_list is needed in warm-up only.
C25_NoTieAfterWarmup ==
    (Called /\ ~is_warmup /\ total_moment > 0) =>
        \A c, r \in Eligible : c # r => Pred(c) # Pred(r)

\* the orders in which a dict with the keys S may have been filled
InsertionOrders(S) ==
    {p \in [1..Cardinality(S) -> S] : \A i, j \in 1..Cardinality(S) : i # j => p[i] # p[j]}

\* C26: the list depends on the chunks, their device, state, pin flag and
\* payload size, the recorded pattern and the current moment only: whatever
\* the order in which the entries were inserted in the map, the list is the same.
C26_InsertionOrderIrrelevant ==
    Called =>
        \A items \in InsertionOrders(DOMAIN id_to_chunk_map) :
            derive_eviction_list(items, id_to_chunk_map, need_bytes, target_device) = moved_list

\* after warm-up a call returns three chunks, two of them with equal predictions
C26_Witness ==
    /\ Called
    /\ ~is_warmup
    /\ total_moment > 0
    /\ Len(moved_list) = 3
    /\ Pred(moved_list[1]) = Pred(moved_list[2])
    /\ Pred(moved_list[2]) # Pred(moved_list[3])

\* the tensors of iteration i that access_data makes resident
AdamResident(i) ==
    {<<AdamParam(l, i), "DATA">> : l \in AdamLists}

\* C27: when an iteration of FP16_f_adamv2 has ended, the data tensors of its
\* fp32 parameter, exp_avg, exp_avg_sq and fp16 parameter are released (not
\* COMPUTE, no handle), the fp16 gradient is FREE and the fp16 data is HOLD;
\* when the loop is over no tensor is in COMPUTE.
C27_AdamReleasesAll ==
    /\ \A i \in 1..MaxAdamParams :
           (adam_call.name # "None" /\ i < adam_call.i) =>
               /\ \A k \in AdamResident(i) :
                      ps_tensor[k].state # "COMPUTE" /\ ps_tensor[k].tensor = NoTensor
               /\ ps_tensor[<<AdamParam("fp16_param_with_grad_list", i), "GRAD">>].state = "FREE"
               /\ ps_tensor[<<AdamParam("fp16_param_with_grad_list", i), "DATA">>].state = "HOLD"
    /\ (adam_call.name # "None" /\ adam_call.i = MaxAdamParams + 1) =>
           \A k \in DOMAIN ps_tensor : ps_tensor[k].state # "COMPUTE"

\* the function has returned after its last iteration
C27_Witness ==
    /\ adam_call.name = "returned"
    /\ adam_call.exception = "None"
    /\ adam_call.i = MaxAdamParams + 1

\* in the last iteration the four data tensors are resident, the tensors of the
\* iterations before are released
C27_WitnessResident ==
    /\ adam_call.name = "FP16_f_adamv2"
    /\ adam_call.i = MaxAdamParams
    /\ AdamBody[adam_call.pc] = "release_data(fp16_param, HOLD)"
    /\ \A k \in AdamResident(adam_call.i) :
           ps_tensor[k].state = "COMPUTE" /\ ps_tensor[k].tensor # NoTensor
    /\ \A k \in AdamResident(1) : ps_tensor[k].state = "HOLD"

\* the PSTensors that are the data or gradient tensor of a registered param
RegTensors ==
    {<<p, a>> \in (DOMAIN ps_attr) \X AccessType :
        _access_ps_tensor(ps_attr[p], a).ret # <<>>}

RegTensorId(k) == _access_ps_tensor(ps_attr[k[1]], k[2]).ret[1].id

\* C28: no two PSTensors created have the same id, be they created alone or
\* by a PSParameter; the data tensor and the gradient tensor of a chunk-based
\* param, and the tensors of different params, have different ids; and
\* get_tensor_id returns -1 for a torch-based param and for no other.
C28_TensorIdsUnique ==
    /\ \A i, j \in DOMAIN ps_tensors : i # j => ps_tensors[i] # ps_tensors[j]
    /\ \A k, l \in RegTensors : k # l => RegTensorId(k) # RegTensorId(l)
    /\ \A k \in RegTensors : RegTensorId(k) >= 0
    /\ (reg_call.name = "get_tensor_id" /\ reg_call.exception = "None") =>
           (reg_call.ret = -1 <=> ps_attr[reg_call.param].param_type = "TORCH_BASED")

\* lone PSTensors and two registered params share the ids; param 1 is
\* chunk-based with both tensors and get_tensor_id returns the gradient's id
C28_Witness ==
    /\ Len(ps_tensors) = MaxTensors
    /\ DOMAIN ps_attr = RegParams
    /\ ps_attr[1].param_type = "CHUNK_BASED"
    /\ ps_attr[2].param_type = "CHUNK_BASED"
    /\ reg_call.name = "get_tensor_id"
    /\ reg_call.param = 1
    /\ reg_call.access_type = "GRAD"
    /\ reg_call.exception = "None"
    /\ reg_call.ret > 0

\* get_tensor_id returned -1 on a torch-based param
C28_WitnessTorchBased ==
    /\ reg_call.name = "get_tensor_id"
    /\ reg_call.exception = "None"
    /\ reg_call.ret = -1
    /\ ps_attr[reg_call.param].param_type = "TORCH_BASED"

\* C29: register_param on a param that already has a ps_attr leaves every
\* ps_attr as it is (tensor ids, states, handles, chunk ids, type, dtype and
\* name) and creates no PSTensor, whatever arguments the call passes.
C29_RegisterIdempotent ==
    [][(reg_call'.name = "register_param" /\ is_param_registered(ps_attr, reg_call'.param)) =>
           /\ ps_attr' = ps_attr
           /\ global_id' = global_id
           /\ ps_tensors' = ps_tensors]_vars

\* a param registered chunk-based, its data tensor in COMPUTE with a handle, was
\* registered again as torch-based with another dtype and name
C29_Witness ==
    /\ reg_call.name = "register_param"
    /\ reg_call.registered
    /\ reg_call.param_type = "TORCH_BASED"
    /\ ps_attr[reg_call.param].param_type = "CHUNK_BASED"
    /\ reg_call.data_type # ps_attr[reg_call.param].data_type
    /\ reg_call.pname # ps_attr[reg_call.param].name
    /\ ps_attr[reg_call.param].data_tensor[1].state = "COMPUTE"
    /\ ps_attr[reg_call.param].data_tensor[1].tensor # NoTensor

====
